---------------------------- MODULE Spec2Model ----------------------------
(***************************************************************************)
(* Model of the comment pipeline of youtube-comments-analysis:             *)
(*   scripts/data_preparation.py   the corpus normalizer (main and its     *)
(*                                 text stages)                            *)
(*   scripts/data_collection.py    the comment ingestor (main,             *)
(*                                 fetch_batch_data_from_video and the     *)
(*                                 pagination of fetch_youtube_comments)   *)
(*                                                                         *)
(* A Python str is a sequence of characters; a character is a one-element  *)
(* string ("a", ":", " ") or, for a character outside ASCII, its code      *)
(* point name ("U+1F431").  Sentiment scores are integers in units of      *)
(* 10^-7, so that 0.4 is 4000000 and 0.4000001 is 4000001.                 *)
(***************************************************************************)
EXTENDS Integers, Sequences, FiniteSets, TLC

VARIABLES csv, nltk_data, df, cols, pc, corpus, log, call,
          youtube, limit, response, comments, requested, ytb_df,
          output_file

\* the state of a run of scripts/data_collection.py
collect_vars ==
  <<youtube, limit, response, comments, requested, ytb_df, output_file>>

vars == <<csv, nltk_data, df, cols, pc, corpus, log, call, collect_vars>>

(***************************************************************************)
(* Bounds of the model.                                                    *)
(***************************************************************************)
\* rows of an input file
MaxRows == 2
\* length of the strings the text functions are enumerated on
MaxLen == 4
\* grid points per unit of sentiment score, besides the threshold points
ScoreGrid == 10
\* pages of a video's comment threads
MaxPages == 2
\* items of a page
MaxPageSize == 2
\* the limit of fetch_batch_data_from_video, passed on as results
MaxResults == 2

(***************************************************************************)
(* Characters (str.isalpha, str.isdigit, str.lower per character).         *)
(***************************************************************************)
LowerLetters == <<"a","b","c","d","e","f","g","h","i","j","k","l","m",
                  "n","o","p","q","r","s","t","u","v","w","x","y","z">>

UpperLetters == <<"A","B","C","D","E","F","G","H","I","J","K","L","M",
                  "N","O","P","Q","R","S","T","U","V","W","X","Y","Z">>

Range(s) == {s[i] : i \in 1..Len(s)}

\* LATIN CAPITAL LETTER I WITH DOT ABOVE: a letter whose lower case is
\* "i" followed by COMBINING DOT ABOVE (U+0307), which is no letter.
DottedI == "U+0130"

CombiningDot == "U+0307"

\* CAT FACE and CAT, two glyphs of emot's UNICODE_EMOJI
CatFace == "U+1F431"

Cat == "U+1F408"

Digits == {"0","1","2","3","4","5","6","7","8","9"}

isalpha(c) == c \in Range(LowerLetters) \cup Range(UpperLetters) \cup {DottedI}

isdigit(c) == c \in Digits

\* the ASCII white space of html.parser's tag names and of bs4's ASCII_SPACES
ASCII_SPACES == {" ", "\t", "\n", "\r", "\f"}

\* the character U+0000
NUL == "U+0000"

\* the white space of a regular expression's \s on a str: the characters
\* str.isspace holds of
RE_SPACES ==
  ASCII_SPACES \cup
  {"U+000B", "U+001C", "U+001D", "U+001E", "U+001F", "U+0085", "U+00A0",
   "U+1680", "U+2000", "U+2001", "U+2002", "U+2003", "U+2004", "U+2005",
   "U+2006", "U+2007", "U+2008", "U+2009", "U+200A", "U+2028", "U+2029",
   "U+202F", "U+205F", "U+3000"}

\* str.isspace
isspace(c) == c \in RE_SPACES

\* str.lower of one character: a string, since U+0130 lowers to two
lower_char(c) ==
  IF c \in Range(UpperLetters)
    THEN <<LowerLetters[CHOOSE i \in 1..Len(UpperLetters) : UpperLetters[i] = c]>>
    ELSE IF c = DottedI THEN <<"i", CombiningDot>> ELSE <<c>>

(***************************************************************************)
(* str and list operations of Python the stages use.                       *)
(***************************************************************************)
RECURSIVE Flatten(_)
Flatten(ss) == IF ss = <<>> THEN <<>> ELSE Head(ss) \o Flatten(Tail(ss))

\* s.lower()
str_lower(s) == Flatten([i \in 1..Len(s) |-> lower_char(s[i])])

\* sep.join(parts) with sep = " "
RECURSIVE join(_)
join(parts) ==
  IF parts = <<>> THEN <<>>
  ELSE IF Len(parts) = 1 THEN parts[1]
  ELSE parts[1] \o <<" ">> \o join(Tail(parts))

\* s.startswith(t, i), with i counted from 1
StartsAt(s, t, i) ==
  /\ i + Len(t) - 1 <= Len(s)
  /\ \A k \in 1..Len(t) : s[i + k - 1] = t[k]

\* t in s, for strings
contains(s, t) == \E i \in 1..(Len(s) + 1) : StartsAt(s, t, i)

\* s.replace(old, new) for a non-empty old: every non-overlapping occurrence,
\* found left to right
RECURSIVE replace_from(_, _, _, _)
replace_from(s, old, new, i) ==
  IF i > Len(s) THEN <<>>
  ELSE IF StartsAt(s, old, i)
    THEN new \o replace_from(s, old, new, i + Len(old))
    ELSE <<s[i]>> \o replace_from(s, old, new, i + 1)

replace(s, old, new) == replace_from(s, old, new, 1)

\* s.split(): the maximal runs of characters that are not whitespace
RECURSIVE split_from(_, _, _)
split_from(s, i, cur) ==
  IF i > Len(s) THEN (IF cur = <<>> THEN <<>> ELSE <<cur>>)
  ELSE IF isspace(s[i])
    THEN (IF cur = <<>> THEN <<>> ELSE <<cur>>) \o split_from(s, i + 1, <<>>)
    ELSE split_from(s, i + 1, Append(cur, s[i]))

split(s) == split_from(s, 1, <<>>)

\* x in lst, and lst.index(x): the first position holding x
list_contains(lst, x) == \E i \in 1..Len(lst) : lst[i] = x

list_index(lst, x) ==
  CHOOSE i \in 1..Len(lst) : lst[i] = x /\ \A j \in 1..(i - 1) : lst[j] # x

(***************************************************************************)
(* nltk.tokenize.word_tokenize, on the characters of the model: letters,   *)
(* digits, the space, ":" "," "!" "?" ";" "(" ")" "<" ">" and characters   *)
(* outside ASCII.  It is the Treebank tokenizer's substitutions followed   *)
(* by str.split; the rules for ".", quotes, apostrophes and dashes never   *)
(* apply to these characters.  Sentence splitting does not change the      *)
(* tokens of such a text.                                                  *)
(***************************************************************************)
\* ([:,])([^\d]) -> " \1 \2": the match consumes the character after the
\* colon, so that character does not start a match of its own
RECURSIVE pad_colons(_, _)
pad_colons(s, i) ==
  IF i > Len(s) THEN <<>>
  ELSE IF s[i] \in {":", ","} /\ i < Len(s) /\ ~isdigit(s[i + 1])
    THEN <<" ", s[i], " ", s[i + 1]>> \o pad_colons(s, i + 2)
    ELSE <<s[i]>> \o pad_colons(s, i + 1)

\* ([:,])$ -> " \1 "
pad_final_colon(s) ==
  IF s # <<>> /\ s[Len(s)] \in {":", ","}
    THEN SubSeq(s, 1, Len(s) - 1) \o <<" ", s[Len(s)], " ">>
    ELSE s

\* [;@#$%&], [?!], [*] and the brackets: a space on both sides
PaddedPunctuation == {";", "@", "#", "$", "%", "&", "?", "!", "*",
                      "[", "]", "(", ")", "{", "}", "<", ">"}

pad_punctuation(s) ==
  Flatten([i \in 1..Len(s) |->
             IF s[i] \in PaddedPunctuation THEN <<" ", s[i], " ">> ELSE <<s[i]>>])

\* \w of the re module
isword(c) == isalpha(c) \/ isdigit(c) \/ c = "_"

\* CONTRACTIONS2 of the Treebank tokenizer, those spelled with letters only:
\* \b(can)(not)\b ... \b(wan)(na)(?=\s), matched ignoring case
CONTRACTIONS2 ==
  << <<(<<"c","a","n">>), (<<"n","o","t">>), FALSE>>,
     <<(<<"g","i","m">>), (<<"m","e">>), FALSE>>,
     <<(<<"g","o","n">>), (<<"n","a">>), FALSE>>,
     <<(<<"g","o","t">>), (<<"t","a">>), FALSE>>,
     <<(<<"l","e","m">>), (<<"m","e">>), FALSE>>,
     <<(<<"w","a","n">>), (<<"n","a">>), TRUE>> >>

\* the case folding of re.IGNORECASE: one character to one character
re_lower(s) == [i \in 1..Len(s) |-> IF s[i] = DottedI THEN "i" ELSE lower_char(s[i])[1]]

\* whether contraction c matches at position i of s (s already padded with a
\* space at both ends); the third component asks for whitespace after it
contraction_at(s, c, i) ==
  LET w == c[1] \o c[2]
      j == i + Len(w)
  IN  /\ j - 1 <= Len(s)
      /\ re_lower(SubSeq(s, i, j - 1)) = w
      /\ (i = 1 \/ ~isword(s[i - 1]))
      /\ IF c[3] THEN j <= Len(s) /\ isspace(s[j])
                 ELSE j > Len(s) \/ ~isword(s[j])

RECURSIVE split_contractions(_, _)
split_contractions(s, i) ==
  IF i > Len(s) THEN <<>>
  ELSE IF \E k \in 1..Len(CONTRACTIONS2) : contraction_at(s, CONTRACTIONS2[k], i)
    THEN LET k == CHOOSE k \in 1..Len(CONTRACTIONS2) :
                    contraction_at(s, CONTRACTIONS2[k], i)
             a == Len(CONTRACTIONS2[k][1])
             b == Len(CONTRACTIONS2[k][2])
         IN  <<" ">> \o SubSeq(s, i, i + a - 1) \o <<" ">>
               \o SubSeq(s, i + a, i + a + b - 1) \o <<" ">>
               \o split_contractions(s, i + a + b)
    ELSE <<s[i]>> \o split_contractions(s, i + 1)

word_tokenize(text) ==
  LET punct  == pad_punctuation(pad_final_colon(pad_colons(text, 1)))
      padded == <<" ">> \o punct \o <<" ">>
  IN  split(split_contractions(padded, 1))

(***************************************************************************)
(* The lookup tables, as excerpts in the order of the library's table.     *)
(***************************************************************************)
\* emot.UNICODE_EMOJI: glyph -> name
UNICODE_EMOJI ==
  << <<(<<CatFace>>), (<<":","c","a","t","_","f","a","c","e",":">>)>>,
     <<(<<Cat>>), (<<":","c","a","t",":">>)>> >>

\* emot.EMOTICONS_EMO: emoticon -> phrase.  The table lists ":)" before
\* ":))" and ":))" before ":)))".
EMOTICONS_EMO ==
  << <<(<<":",")">>),
       (<<"H","a","p","p","y"," ","f","a","c","e"," ","o","r"," ","s","m","i","l","e","y">>)>>,
     <<(<<":",")",")">>),
       (<<"V","e","r","y"," ","H","a","p","p","y"," ","f","a","c","e"," ","o","r"," ","s","m","i","l","e","y">>)>>,
     <<(<<":",")",")",")">>),
       (<<"V","e","r","y"," ","v","e","r","y"," ","H","a","p","p","y"," ","f","a","c","e"," ","o","r"," ","s","m","i","l","e","y">>)>> >>

\* nltk.corpus.stopwords.words("english"), an excerpt
STOPWORDS ==
  {<<"a">>,
   <<"a","n">>,
   <<"t","h","e">>,
   <<"o","r">>,
   <<"w","i","t","h">>,
   <<"w","a","s">>,
   <<"i","t">>,
   <<"t","h","i","s">>,
   <<"i">>,
   <<"o">>,
   <<"s">>,
   <<"t">>,
   <<"o","n">>,
   <<"n","o">>,
   <<"c","a","n">>,
   <<"n","o","t">>,
   <<"m","e">>}

\* the noun lemmas of WordNet, an excerpt
WORDNET_NOUNS ==
  {<<"c","a","t">>,
   <<"v","i","d","e","o">>,
   <<"g","r","e","a","t">>,
   <<"f","a","c","e">>,
   <<"n","a">>}

\* MORPHOLOGICAL_SUBSTITUTIONS[NOUN] of nltk's WordNet reader
NOUN_SUBSTITUTIONS ==
  << <<(<<"s">>), (<<>>)>>,
     <<(<<"s","e","s">>), (<<"s">>)>>,
     <<(<<"v","e","s">>), (<<"f">>)>>,
     <<(<<"x","e","s">>), (<<"x">>)>>,
     <<(<<"z","e","s">>), (<<"z">>)>>,
     <<(<<"c","h","e","s">>), (<<"c","h">>)>>,
     <<(<<"s","h","e","s">>), (<<"s","h">>)>>,
     <<(<<"m","e","n">>), (<<"m","a","n">>)>>,
     <<(<<"i","e","s">>), (<<"y">>)>> >>

\* the VADER lexicon, an excerpt: word -> valence in tenths
VADER_LEXICON ==
  << <<(<<"g","r","e","a","t">>), 31>>,
     <<(<<"g","o","o","d">>), 19>>,
     <<(<<"b","a","d">>), -25>> >>

\* round(x / sqrt(x * x + 15), 4) in units of 10^-4, for x = 0.0, 0.1, ... 8.0
NORMALIZE_TABLE ==
  << 0, 258, 516, 772, 1027, 1280, 1531, 1779, 2023,
     2263, 2500, 2732, 2960, 3182, 3400, 3612, 3818, 4019,
     4215, 4404, 4588, 4767, 4939, 5106, 5267, 5423, 5574,
     5719, 5859, 5994, 6124, 6249, 6369, 6486, 6597, 6705,
     6808, 6908, 7003, 7096, 7184, 7269, 7351, 7430, 7506,
     7579, 7650, 7717, 7783, 7845, 7906, 7964, 8020, 8074,
     8126, 8176, 8225, 8271, 8316, 8360, 8402, 8442, 8481,
     8519, 8555, 8591, 8625, 8658, 8689, 8720, 8750, 8779,
     8807, 8834, 8860, 8885, 8910, 8934, 8957, 8979, 9001 >>

(***************************************************************************)
(* The text stages of scripts/data_preparation.py.                         *)
(***************************************************************************)
\* BeautifulSoup(text, "html.parser").get_text(): html.parser's HTMLParser
\* reads the markup (goahead) and hands start tags, end tags, comments and
\* data to BeautifulSoup, which builds the strings of the tree; get_text
\* joins the strings that are text.  The markup of the model has no "&"
\* (character references), no "<!--" and "<![" sections, and no quoted or
\* "=" attribute values; its characters are those named in this module.
isasciialpha(c) == c \in Range(LowerLetters) \cup Range(UpperLetters)

\* the characters that end a tag name, '[^\t\n\r\f />\x00]' of
\* tagfind_tolerant and locatestarttagend_tolerant
NAME_END == ASCII_SPACES \cup {"/", ">", NUL}

\* the first index from p on that holds a character of set, Len(s) + 1 if none
find(s, p, set) ==
  IF \E q \in p..Len(s) : s[q] \in set
    THEN CHOOSE q \in p..Len(s) :
           s[q] \in set /\ \A m \in p..(q - 1) : s[m] \notin set
    ELSE Len(s) + 1

\* starttagopen '<[a-zA-Z]', "</", "<!" and "<?" open a construct: the index
\* of its last character, or 0 when "<" at i opens none and is data.  The
\* construct runs to the next ">" (rawdata.find('>', i + 2)), but for a
\* start tag whose name is followed by NUL: locatestarttagend_tolerant
\* matches the name only, since an attribute name starts after white space
\* or "/" ('(?<=[\'"\s/])[^\s/>]'), check_for_whole_start_tag returns the
\* index of the NUL, and parse_starttag hands "<" and the name on as data
tag_end(s, i) ==
  LET q == find(s, i + 1, NAME_END)
  IN  IF i + 2 > Len(s) THEN 0
      ELSE IF /\ isasciialpha(s[i + 1])
              /\ q <= Len(s) /\ s[q] = NUL /\ s[q - 1] \notin RE_SPACES
        THEN q - 1
      ELSE IF /\ isasciialpha(s[i + 1]) \/ s[i + 1] \in {"/", "!", "?"}
              /\ \E k \in (i + 2)..Len(s) : s[k] = ">"
        THEN find(s, i + 2, {">"})
      ELSE 0

\* the first index from p on that holds no character of set, Len(s) + 1 if none
skip(s, p, set) ==
  IF \E q \in p..Len(s) : s[q] \notin set
    THEN CHOOSE q \in p..Len(s) :
           s[q] \notin set /\ \A m \in p..(q - 1) : s[m] \in set
    ELSE Len(s) + 1

\* tagfind_tolerant '([a-zA-Z][^\t\n\r\f />\x00]*)': the tag name that
\* starts at p, lower-cased
tag_name(s, p) == str_lower(SubSeq(s, p, find(s, p, NAME_END) - 1))

\* the characters of a name of endtagfind, '[-.a-zA-Z0-9:_]'
ENDTAG_NAME ==
  Range(LowerLetters) \cup Range(UpperLetters) \cup Digits \cup {"-", ".", ":", "_"}

\* parse_endtag for "</" at i that ends at gt: the end tag of a name
\* (endtagfind '</\s*([a-zA-Z][-.a-zA-Z0-9:_]*)\s*>', or else the name that
\* starts right after "</"), nothing for "</>", or a bogus comment
parse_endtag(s, i, gt) ==
  LET p == skip(s, i + 2, RE_SPACES)
      q == skip(s, p, ENDTAG_NAME)
      r == skip(s, q, RE_SPACES)
  IN  IF p < gt /\ isasciialpha(s[p]) /\ r = gt
        THEN [kind |-> "endtag", name |-> str_lower(SubSeq(s, p, q - 1))]
      ELSE IF isasciialpha(s[i + 2])
        THEN [kind |-> "endtag", name |-> tag_name(s, i + 2)]
      ELSE IF gt = i + 2 THEN [kind |-> "none", name |-> <<>>]
      ELSE [kind |-> "comment", name |-> <<>>]

\* CDATA_CONTENT_ELEMENTS of HTMLParser
CDATA_CONTENT_ELEMENTS == {<<"s","c","r","i","p","t">>, <<"s","t","y","l","e">>}

\* '</\s*%s\s*>' of set_cdata_mode at p: "</", white space, elem in either
\* case, white space, ">"; the index of its ">", or 0
cdata_end_at(s, p, elem) ==
  LET q == skip(s, p + 2, RE_SPACES)
      r == skip(s, q + Len(elem), RE_SPACES)
  IN  IF /\ p + 1 <= Len(s) /\ s[p] = "<" /\ s[p + 1] = "/"
         /\ q + Len(elem) - 1 <= Len(s)
         /\ str_lower(SubSeq(s, q, q + Len(elem) - 1)) = elem
         /\ r <= Len(s) /\ s[r] = ">"
        THEN r ELSE 0

\* in CDATA mode (set_cdata_mode) everything up to the end tag of elem is
\* the element's data: the index of the ">" of that end tag, 0 when there
\* is none (the rest of the markup is then never handled)
cdata_end(s, i, elem) ==
  IF \E p \in i..Len(s) : cdata_end_at(s, p, elem) > 0
    THEN cdata_end_at(s, CHOOSE p \in i..Len(s) :
                            /\ cdata_end_at(s, p, elem) > 0
                            /\ \A m \in i..(p - 1) : cdata_end_at(s, m, elem) = 0,
                      elem)
    ELSE 0

\* bs4: HTMLTreeBuilder.empty_element_tags
EMPTY_ELEMENT_TAGS ==
  {<<"a","r","e","a">>, <<"b","a","s","e">>, <<"b","r">>, <<"c","o","l">>,
   <<"e","m","b","e","d">>, <<"h","r">>, <<"i","m","g">>,
   <<"i","n","p","u","t">>, <<"k","e","y","g","e","n">>, <<"l","i","n","k">>,
   <<"m","e","n","u","i","t","e","m">>, <<"m","e","t","a">>,
   <<"p","a","r","a","m">>, <<"s","o","u","r","c","e">>,
   <<"t","r","a","c","k">>, <<"w","b","r">>,
   <<"b","a","s","e","f","o","n","t">>, <<"b","g","s","o","u","n","d">>,
   <<"c","o","m","m","a","n","d">>, <<"f","r","a","m","e">>,
   <<"i","m","a","g","e">>, <<"i","s","i","n","d","e","x">>,
   <<"n","e","x","t","i","d">>, <<"s","p","a","c","e","r">>}

\* bs4: HTMLTreeBuilder.DEFAULT_STRING_CONTAINERS; a string inside one of
\* these is a RubyTextString, RubyParenthesisString, Stylesheet, Script or
\* TemplateString, none of which get_text returns
STRING_CONTAINERS ==
  {<<"r","t">>, <<"r","p">>, <<"s","t","y","l","e">>,
   <<"s","c","r","i","p","t">>, <<"t","e","m","p","l","a","t","e">>}

\* bs4: HTMLTreeBuilder.preserve_whitespace_tags
PRESERVE_WHITESPACE_TAGS == {<<"p","r","e">>, <<"t","e","x","t","a","r","e","a">>}

\* bs4's tree while the markup is read: the names of the open tags
\* (tagStack), already_closed_empty_element, the data of the string being
\* read (current_data), and the text of the strings get_text returns
NewSoup == [tagStack |-> <<>>, closed |-> <<>>, current_data |-> <<>>, text |-> <<>>]

\* BeautifulSoup.endData: the data read becomes a string of the tree; a
\* string of ASCII white space only becomes one "\n" or " ", unless a pre or
\* textarea is open; get_text takes the string unless a string container is
\* open
endData(soup) ==
  LET data == soup.current_data
      string ==
        IF /\ Range(soup.tagStack) \cap PRESERVE_WHITESPACE_TAGS = {}
           /\ \A k \in 1..Len(data) : data[k] \in ASCII_SPACES
          THEN (IF "\n" \in Range(data) THEN <<"\n">> ELSE <<" ">>)
          ELSE data
  IN  IF data = <<>> THEN soup
      ELSE [soup EXCEPT
              !.current_data = <<>>,
              !.text = IF Range(soup.tagStack) \cap STRING_CONTAINERS = {}
                         THEN @ \o string ELSE @]

\* BeautifulSoup._popToTag: the open tags down to the most recent one of the
\* name are closed; nothing is, when no tag of the name is open
popToTag(tagStack, name) ==
  IF name \in Range(tagStack)
    THEN SubSeq(tagStack, 1,
                (CHOOSE k \in 1..Len(tagStack) :
                   /\ tagStack[k] = name
                   /\ \A m \in (k + 1)..Len(tagStack) : tagStack[m] # name) - 1)
    ELSE tagStack

\* list.remove(name): the list without the first name
list_remove(list, name) ==
  LET k == list_index(list, name)
  IN  SubSeq(list, 1, k - 1) \o SubSeq(list, k + 1, Len(list))

\* BeautifulSoupHTMLParser.handle_endtag: an end tag of an empty-element
\* tag that was closed already is crossed off; any other closes its tag
handle_endtag(soup, name) ==
  IF list_contains(soup.closed, name)
    THEN [soup EXCEPT !.closed = list_remove(@, name)]
    ELSE [endData(soup) EXCEPT !.tagStack = popToTag(@, name)]

\* BeautifulSoupHTMLParser.handle_starttag and handle_startendtag: the tag
\* is opened; "<tag/>" is closed by handle_endtag, an empty-element tag is
\* closed at once and its name kept in already_closed_empty_element
handle_starttag(soup, name, startend) ==
  LET opened == [endData(soup) EXCEPT !.tagStack = Append(@, name)]
  IN  IF startend THEN handle_endtag(opened, name)
      ELSE IF name \in EMPTY_ELEMENT_TAGS
        THEN [opened EXCEPT !.tagStack = popToTag(@, name),
                            !.closed = Append(@, name)]
      ELSE opened

\* HTMLParser.goahead from index i on, and get_text at the end of the markup
RECURSIVE get_text(_, _, _)
get_text(s, i, soup) ==
  IF i > Len(s) THEN endData(soup).text
  ELSE IF s[i] # "<" \/ tag_end(s, i) = 0
    THEN get_text(s, i + 1, [soup EXCEPT !.current_data = Append(@, s[i])])
  ELSE
    LET gt == tag_end(s, i)
    IN  IF s[gt] # ">"
          THEN get_text(s, gt + 1,
                        [soup EXCEPT !.current_data = @ \o SubSeq(s, i, gt)])
        ELSE IF isasciialpha(s[i + 1])
          THEN LET name == tag_name(s, i + 1)
                   startend == s[gt - 1] = "/"
                   opened == handle_starttag(soup, name, startend)
               IN  IF name \in CDATA_CONTENT_ELEMENTS /\ ~startend
                     THEN IF cdata_end(s, gt + 1, name) = 0
                            THEN opened.text
                            ELSE get_text(s, cdata_end(s, gt + 1, name) + 1,
                                          handle_endtag(opened, name))
                     ELSE get_text(s, gt + 1, opened)
        ELSE IF s[i + 1] = "/"
          THEN LET tag == parse_endtag(s, i, gt)
               IN  get_text(s, gt + 1,
                            IF tag.kind = "endtag" THEN handle_endtag(soup, tag.name)
                            ELSE IF tag.kind = "comment" THEN endData(soup)
                            ELSE soup)
        ELSE get_text(s, gt + 1, endData(soup))

remove_html_tags(text) == get_text(text, 1, NewSoup)

\* UNICODE_EMOJI[emo].replace(":", "").replace("_", " ")
emoji_name(name) == replace(replace(name, <<":">>, <<>>), <<"_">>, <<" ">>)

\* the loop of translate_emojis over the table, from entry k on: a glyph that
\* is among the tokens is replaced at tokenized_text.index(emo), its first
\* position
RECURSIVE translate_emojis_loop(_, _)
translate_emojis_loop(tokenized_text, k) ==
  IF k > Len(UNICODE_EMOJI) THEN tokenized_text
  ELSE LET emo == UNICODE_EMOJI[k][1]
       IN  IF list_contains(tokenized_text, emo)
             THEN translate_emojis_loop(
                    [tokenized_text EXCEPT ![list_index(tokenized_text, emo)] =
                                             emoji_name(UNICODE_EMOJI[k][2])],
                    k + 1)
             ELSE translate_emojis_loop(tokenized_text, k + 1)

translate_emojis(text) == join(translate_emojis_loop(word_tokenize(text), 1))

\* the loop of translate_emoticons over the table in the table's order
RECURSIVE translate_emoticons_loop(_, _)
translate_emoticons_loop(new_text, k) ==
  IF k > Len(EMOTICONS_EMO) THEN new_text
  ELSE LET ticon == EMOTICONS_EMO[k][1]
       IN  IF contains(new_text, ticon)
             THEN translate_emoticons_loop(
                    replace(new_text, ticon, EMOTICONS_EMO[k][2]), k + 1)
             ELSE translate_emoticons_loop(new_text, k + 1)

translate_emoticons(text) == translate_emoticons_loop(text, 1)

\* the loop of filter_text_noise: e runs over the characters of the argument
\* (the loop iterates the original string), and each e that is no letter is
\* replaced everywhere in next_text
RECURSIVE filter_text_noise_loop(_, _, _)
filter_text_noise_loop(text, next_text, i) ==
  IF i > Len(text) THEN next_text
  ELSE IF ~isalpha(text[i])
    THEN filter_text_noise_loop(text, replace(next_text, <<text[i]>>, <<" ">>), i + 1)
    ELSE filter_text_noise_loop(text, next_text, i + 1)

\* a filter that tests isalnum instead of isalpha: digits stay
filter_text_noise_mut(text) ==
  [i \in 1..Len(text) |->
     IF isalpha(text[i]) \/ isdigit(text[i]) THEN text[i] ELSE " "]

filter_text_noise(text) == filter_text_noise_loop(text, text, 1)

\* the tokens of a list that pass a test, in order
RECURSIVE filter_tokens(_, _)
filter_tokens(tokens, drop) ==
  IF tokens = <<>> THEN <<>>
  ELSE IF Head(tokens) \in drop
    THEN filter_tokens(Tail(tokens), drop)
    ELSE <<Head(tokens)>> \o filter_tokens(Tail(tokens), drop)

filter_stopwords(text) == join(filter_tokens(word_tokenize(text), STOPWORDS))

\* WordNet's _morphy for nouns: the form and the forms the suffix rules give,
\* those that are lemmas; with none, the rules are applied again
ends_with(w, suffix) ==
  Len(suffix) <= Len(w) /\ StartsAt(w, suffix, Len(w) - Len(suffix) + 1)

apply_rules(forms) ==
  Flatten([i \in 1..Len(forms) |->
    Flatten([r \in 1..Len(NOUN_SUBSTITUTIONS) |->
      IF ends_with(forms[i], NOUN_SUBSTITUTIONS[r][1])
        THEN << SubSeq(forms[i], 1, Len(forms[i]) - Len(NOUN_SUBSTITUTIONS[r][1]))
                  \o NOUN_SUBSTITUTIONS[r][2] >>
        ELSE <<>>])])

filter_forms(forms) == SelectSeq(forms, LAMBDA f : f \in WORDNET_NOUNS)

RECURSIVE morphy_again(_)
morphy_again(forms) ==
  IF forms = <<>> THEN <<>>
  ELSE LET next == apply_rules(forms)
       IN  IF filter_forms(next) # <<>> THEN filter_forms(next)
           ELSE morphy_again(next)

morphy(form) ==
  LET forms   == apply_rules(<<form>>)
      results == filter_forms(<<form>> \o forms)
  IN  IF results # <<>> THEN results ELSE morphy_again(forms)

\* WordNetLemmatizer.lemmatize(w): min(lemmas, key=len), the first shortest
lemmatize(w) ==
  LET lemmas == morphy(w)
  IN  IF lemmas = <<>> THEN w
      ELSE lemmas[CHOOSE i \in 1..Len(lemmas) :
                    /\ \A j \in 1..Len(lemmas) : Len(lemmas[i]) <= Len(lemmas[j])
                    /\ \A j \in 1..(i - 1) : Len(lemmas[j]) > Len(lemmas[i])]

lemmatize_text(text) ==
  LET tokenized_text == word_tokenize(text)
  IN  join([i \in 1..Len(tokenized_text) |-> lemmatize(tokenized_text[i])])

(***************************************************************************)
(* Sentiment: SentimentIntensityAnalyzer().polarity_scores(text)           *)
(* ["compound"], for a text without booster, negation or idiom words: the  *)
(* valences of the words of text.split() that the lexicon has are summed   *)
(* and normalised.  Scores are in units of 10^-7.                          *)
(***************************************************************************)
valence(w) ==
  IF \E k \in 1..Len(VADER_LEXICON) : VADER_LEXICON[k][1] = str_lower(w)
    THEN VADER_LEXICON[CHOOSE k \in 1..Len(VADER_LEXICON) :
                         VADER_LEXICON[k][1] = str_lower(w)][2]
    ELSE 0

RECURSIVE sum_valence(_)
sum_valence(ws) == IF ws = <<>> THEN 0 ELSE valence(Head(ws)) + sum_valence(Tail(ws))

normalize(v) ==
  IF v >= 0 THEN NORMALIZE_TABLE[v + 1] * 1000 ELSE -(NORMALIZE_TABLE[1 - v] * 1000)

polarity_compound(text) == normalize(sum_valence(split(text)))

get_sent_score(text) == polarity_compound(text)

\* the literals of get_sent_label: 0.4 and -0.1
POSITIVE_ABOVE == 4000000

NEUTRAL_ABOVE == -1000000

\* a score argument is <<>> (None, the default) or <<x>>
None == <<>>

\* "not score": None and 0.0 are falsy
falsy(score) == score = None \/ score[1] = 0

\* the score recomputed only when none is passed (if score is None)
get_sent_label_none(text, score) ==
  LET s == IF score = None THEN polarity_compound(text) ELSE score[1]
  IN  IF POSITIVE_ABOVE < s THEN "positive"
      ELSE IF NEUTRAL_ABOVE < s /\ s <= POSITIVE_ABOVE THEN "neutral"
      ELSE "negative"

\* the first comparison written 0.4 <= score
get_sent_label_mut(text, score) ==
  LET s == IF falsy(score) THEN polarity_compound(text) ELSE score[1]
  IN  IF POSITIVE_ABOVE <= s THEN "positive"
      ELSE IF NEUTRAL_ABOVE < s /\ s <= POSITIVE_ABOVE THEN "neutral"
      ELSE "negative"

get_sent_label(text, score) ==
  LET s == IF falsy(score) THEN polarity_compound(text) ELSE score[1]
  IN  IF POSITIVE_ABOVE < s THEN "positive"
      ELSE IF NEUTRAL_ABOVE < s /\ s <= POSITIVE_ABOVE THEN "neutral"
      ELSE "negative"

(***************************************************************************)
(* The presence flags.                                                     *)
(***************************************************************************)
RECURSIVE has_emojis_loop(_, _)
has_emojis_loop(tokenized_text, k) ==
  IF k > Len(UNICODE_EMOJI) THEN 0
  ELSE IF list_contains(tokenized_text, UNICODE_EMOJI[k][1]) THEN 1
  ELSE has_emojis_loop(tokenized_text, k + 1)

has_emojis(text) == has_emojis_loop(word_tokenize(text), 1)

RECURSIVE has_emoticons_loop(_, _)
has_emoticons_loop(new_text, k) ==
  IF k > Len(EMOTICONS_EMO) THEN 0
  ELSE IF contains(new_text, EMOTICONS_EMO[k][1]) THEN 1
  ELSE has_emoticons_loop(new_text, k + 1)

has_emoticons(text) == has_emoticons_loop(text, 1)

(***************************************************************************)
(* The input file and read_data.  A file is its header (whether it has a   *)
(* text column) and the text cell of each row; a parsed cell is a str, NaN *)
(* or a number.                                                            *)
(***************************************************************************)
\* the comments the input files of the model are made of
T_EMPTY == <<>>

T_DIGITS == <<"1","2","3">>

T_GREAT == <<"G","r","e","a","t"," ","v","i","d","e","o","!"," ",":",")">>

T_HTML == <<"<","b",">","c","a","t","s","<","/","b",">">>

T_THE == <<"t","h","e"," ","1","2","3"," ","c","a","t">>

T_EMOJI == <<CatFace," ",CatFace>>

T_GONNA == <<"g","o","n","n","a","1">>

T_DOTTED == <<DottedI>>

Cells == {T_EMPTY, T_DIGITS, T_GREAT, T_HTML, T_THE, T_EMOJI, T_GONNA, T_DOTTED}

\* pandas' default NA strings, an excerpt
NA_VALUES == {<<>>, <<"N","A">>, <<"n","a","n">>, <<"n","u","l","l">>}

is_na(cell) == cell \in NA_VALUES

is_number(cell) == cell # <<>> /\ \A i \in 1..Len(cell) : isdigit(cell[i])

\* pd.read_csv infers the type of a column from all of its cells: a column
\* whose cells are all numbers or NA is numeric, any other is of str objects
parse_cell(cells, i) ==
  IF is_na(cells[i]) THEN [kind |-> "nan", s |-> <<>>]
  ELSE IF \A j \in 1..Len(cells) : is_na(cells[j]) \/ is_number(cells[j])
    THEN [kind |-> "num", s |-> cells[i]]
    ELSE [kind |-> "str", s |-> cells[i]]

RAW_COLUMNS == <<"author", "published_at", "updated_at", "likes">>

\* a row of the frame; a derived column holds a value once cols names it
new_row(i, text) ==
  [raw |-> i, text |-> text,
   cleaned_text |-> <<>>, filtered_text |-> <<>>, lemmatized_text |-> <<>>,
   has_emojis |-> 0, has_emoticons |-> 0, sent_class |-> "", sent_score |-> 0]

read_data(file) ==
  [i \in 1..Len(file.cells) |->
     new_row(i, IF file.has_text THEN parse_cell(file.cells, i)
                ELSE [kind |-> "nan", s |-> <<>>])]

read_columns(file) ==
  IF file.has_text THEN Append(RAW_COLUMNS, "text") ELSE RAW_COLUMNS

\* the NLTK resources a run may find downloaded or not
NLTK_RESOURCES == {"punkt", "stopwords", "wordnet", "vader_lexicon"}

Files ==
  {[has_text |-> h, cells |-> c] :
     h \in BOOLEAN, c \in UNION {[1..n -> Cells] : n \in 1..MaxRows}}

(***************************************************************************)
(* scripts/data_collection.py: the comment threads of a video as the       *)
(* YouTube service serves them.  A video has a chain of pages; item n of   *)
(* the video is told apart by n; the response to a page request is a dict  *)
(* with the page's items and, on every page but the last, nextPageToken.   *)
(* One request of a run may go wrong: it raises, or its response is {}.    *)
(***************************************************************************)
\* item["snippet"]["topLevelComment"]["snippet"] of item n
snippet(n) ==
  [authorDisplayName |-> <<"author", n>>,
   publishedAt |-> <<"published", n>>,
   updatedAt |-> <<"updated", n>>,
   likeCount |-> n,
   textDisplay |-> <<"text", n>>]

\* the items of the pages before page k
RECURSIVE items_before(_, _)
items_before(sizes, k) ==
  IF k <= 1 THEN 0 ELSE items_before(sizes, k - 1) + sizes[k - 1]

page_items(sizes, k) ==
  [j \in 1..sizes[k] |-> snippet(items_before(sizes, k) + j)]

\* the dict {} as a response
EmptyDict == [keys |-> {}, items |-> <<>>, nextPageToken |-> 0]

\* the response that holds page k: the token of page k + 1 is k + 1
page(sizes, k) ==
  IF k < Len(sizes)
    THEN [keys |-> {"items", "nextPageToken"},
          items |-> page_items(sizes, k), nextPageToken |-> k + 1]
    ELSE [keys |-> {"items"}, items |-> page_items(sizes, k),
          nextPageToken |-> 0]

\* what request.execute() can raise: googleapiclient's HttpError, or an
\* error of the transport
ERRORS == {"HttpError", "ServerNotFoundError"}

NoFault == [at |-> 0, kind |-> "none"]

\* the services of a run: the page sizes of the video, and the request that
\* goes wrong, if one does
Services ==
  {[sizes |-> sz, fault |-> f] :
     sz \in UNION {[1..n -> 0..MaxPageSize] : n \in 1..MaxPages},
     f \in {NoFault} \cup
           {[at |-> k, kind |-> e] : k \in 1..MaxPages, e \in ERRORS \cup {"empty"}}}

\* the page a request asks for: the first request passes no pageToken
page_asked(request) == IF request.pageToken = 0 THEN 1 ELSE request.pageToken

\* request.execute() raises
execute_raises(service, request) ==
  service.fault.at = page_asked(request) /\ service.fault.kind \in ERRORS

\* the response request.execute() returns when it does not raise
execute(service, request) ==
  IF service.fault.at = page_asked(request) THEN EmptyDict
  ELSE page(service.sizes, page_asked(request))

\* col_names of fetch_batch_data_from_video
col_names == <<"author", "published_at", "updated_at", "likes", "text">>

\* pd.DataFrame(rows, columns=col_names)
DataFrame(rows) == [columns |-> col_names, rows |-> rows]

\* the list appended for one item
comment_record(comment) ==
  <<comment.authorDisplayName, comment.publishedAt, comment.updatedAt,
    comment.likeCount, comment.textDisplay>>

\* no run of data_collection.py
NoCollect ==
  /\ youtube = [sizes |-> <<>>, fault |-> NoFault]
  /\ limit = 0
  /\ response = EmptyDict
  /\ comments = <<>>
  /\ requested = <<>>
  /\ ytb_df = <<>>
  /\ output_file = <<>>

(***************************************************************************)
(* main of scripts/data_preparation.py: one action per statement of the    *)
(* try block.  A statement df[dst] = df[src].apply(f) calls f on every row *)
(* and assigns the column only when every call returned; an exception      *)
(* leaves the try block for the handler, which logs it.                    *)
(***************************************************************************)
NoCall == [fn |-> "idle", arg |-> <<>>, score |-> None, ret |-> <<>>]

\* the cell of column src of a row, as a parsed value
cell_value(row, src) ==
  IF src = "text" THEN row.text ELSE [kind |-> "str", s |-> row[src]]

\* every row given the value computed for the first row
set_column_first(frame, dst, values) ==
  [i \in 1..Len(frame) |-> [frame[i] EXCEPT ![dst] = values[1]]]

set_column(frame, dst, values) ==
  [i \in 1..Len(frame) |-> [frame[i] EXCEPT ![dst] = values[i]]]

\* a new column put in front of the frame's columns
add_column_front(columns, dst) ==
  IF dst \in Range(columns) THEN columns ELSE <<dst>> \o columns

add_column(columns, dst) ==
  IF dst \in Range(columns) THEN columns ELSE Append(columns, dst)

\* whether df[src].apply(f) raises: no such column, a cell that is no str
\* (the text functions take a str), or an NLTK resource f needs is missing
apply_raises(src, needs) ==
  \/ src \notin Range(cols)
  \/ \E i \in 1..Len(df) : cell_value(df[i], src).kind # "str"
  \/ df # <<>> /\ ~(needs \subseteq nltk_data)

\* a handler that logs and goes on to save what there is
HandlerMut ==
  /\ pc' = "save_corpus"
  /\ log' = Append(log, "exception")
  /\ UNCHANGED <<csv, nltk_data, df, cols, corpus, call, collect_vars>>

\* except Exception as e: logging.exception(...)
Handler ==
  /\ pc' = "failed"
  /\ log' = Append(log, "exception")
  /\ UNCHANGED <<csv, nltk_data, df, cols, corpus, call, collect_vars>>

\* df[dst] = df[src].apply(f), values being f of each cell of column src
Statement(next, src, dst, needs, values) ==
  /\ IF apply_raises(src, needs)
       THEN Handler
       ELSE /\ df' = set_column(df, dst, values)
            /\ cols' = add_column(cols, dst)
            /\ pc' = next
            /\ UNCHANGED <<csv, nltk_data, corpus, log, call, collect_vars>>

\* df = read_data(input_file)
ReadData ==
  /\ pc = "read_data"
  /\ df' = read_data(csv)
  /\ cols' = read_columns(csv)
  /\ pc' = "remove_html_tags"
  /\ UNCHANGED <<csv, nltk_data, corpus, log, call, collect_vars>>

RemoveHtmlTags ==
  /\ pc = "remove_html_tags"
  /\ Statement("translate_emojis", "text", "cleaned_text",
            {},
      [i \in 1..Len(df) |-> remove_html_tags(cell_value(df[i], "text").s)])

\* emoji translation applied to the text column instead of cleaned_text
TranslateEmojisMut ==
  /\ pc = "translate_emojis"
  /\ Statement("translate_emoticons", "text", "cleaned_text", {"punkt"},
      [i \in 1..Len(df) |-> translate_emojis(cell_value(df[i], "text").s)])

TranslateEmojis ==
  /\ pc = "translate_emojis"
  /\ Statement("translate_emoticons", "cleaned_text",
            "cleaned_text", {"punkt"},
      [i \in 1..Len(df) |-> translate_emojis(cell_value(df[i], "cleaned_text").s)])

TranslateEmoticons ==
  /\ pc = "translate_emoticons"
  /\ Statement("filter_text_noise", "cleaned_text",
            "cleaned_text", {},
      [i \in 1..Len(df) |-> translate_emoticons(cell_value(df[i], "cleaned_text").s)])

FilterTextNoise ==
  /\ pc = "filter_text_noise"
  /\ Statement("lower", "cleaned_text", "cleaned_text",
            {},
      [i \in 1..Len(df) |-> filter_text_noise(cell_value(df[i], "cleaned_text").s)])

\* the case folding statement storing the column as it is
identity(text) == text

LowerMut ==
  /\ pc = "lower"
  /\ Statement("filter_stopwords", "cleaned_text", "cleaned_text", {},
      [i \in 1..Len(df) |-> identity(cell_value(df[i], "cleaned_text").s)])

Lower ==
  /\ pc = "lower"
  /\ Statement("filter_stopwords", "cleaned_text", "cleaned_text",
            {},
      [i \in 1..Len(df) |-> str_lower(cell_value(df[i], "cleaned_text").s)])

FilterStopwords ==
  /\ pc = "filter_stopwords"
  /\ Statement("lemmatize_text", "cleaned_text",
            "filtered_text", {"punkt", "stopwords"},
      [i \in 1..Len(df) |-> filter_stopwords(cell_value(df[i], "cleaned_text").s)])

LemmatizeText ==
  /\ pc = "lemmatize_text"
  /\ Statement("has_emojis", "filtered_text", "lemmatized_text",
            {"punkt", "wordnet"},
      [i \in 1..Len(df) |-> lemmatize_text(cell_value(df[i], "filtered_text").s)])

HasEmojis ==
  /\ pc = "has_emojis"
  /\ Statement("has_emoticons", "text", "has_emojis",
            {"punkt"},
      [i \in 1..Len(df) |-> has_emojis(cell_value(df[i], "text").s)])

\* the emoticon flag computed from cleaned_text instead of text
HasEmoticonsMut ==
  /\ pc = "has_emoticons"
  /\ Statement("sent_class", "cleaned_text", "has_emoticons", {},
      [i \in 1..Len(df) |-> has_emoticons(cell_value(df[i], "cleaned_text").s)])

HasEmoticons ==
  /\ pc = "has_emoticons"
  /\ Statement("sent_class", "text", "has_emoticons",
            {},
      [i \in 1..Len(df) |-> has_emoticons(cell_value(df[i], "text").s)])

sent_label_of_text(t) == get_sent_label(t, None)

SentClass ==
  /\ pc = "sent_class"
  /\ Statement("sent_score", "cleaned_text", "sent_class",
            {"vader_lexicon"},
      [i \in 1..Len(df) |-> sent_label_of_text(cell_value(df[i], "cleaned_text").s)])

SentScore ==
  /\ pc = "sent_score"
  /\ Statement("save_corpus", "cleaned_text", "sent_score",
            {"vader_lexicon"},
      [i \in 1..Len(df) |-> get_sent_score(cell_value(df[i], "cleaned_text").s)])

\* save_corpus(df=df, fname=output_file) and the two log lines
SaveCorpus ==
  /\ pc = "save_corpus"
  /\ corpus' = <<[columns |-> cols, rows |-> df]>>
  /\ log' = log \o <<"saved", "success">>
  /\ pc' = "done"
  /\ UNCHANGED <<csv, nltk_data, df, cols, call, collect_vars>>

\* a run of main: the input file and the NLTK resources found
MainInit ==
  /\ csv \in Files
  /\ nltk_data \in {NLTK_RESOURCES} \cup {NLTK_RESOURCES \ {r} : r \in NLTK_RESOURCES}
  /\ df = <<>>
  /\ cols = <<>>
  /\ pc = "read_data"
  /\ corpus = <<>>
  /\ log = <<>>
  /\ call = NoCall
  /\ NoCollect

(***************************************************************************)
(* Direct calls of the text functions, on every string of at most MaxLen   *)
(* characters over the characters the function tells apart.                *)
(***************************************************************************)
Strings(alphabet) == UNION {[1..n -> alphabet] : n \in 0..MaxLen}

EmojiAlphabet == {CatFace, Cat, "a", " "}

EmoticonAlphabet == {":", ")", "a", " "}

NoiseAlphabet == {"a", "T", "1", " ", DottedI}

SentTexts == {<<>>, <<"g","r","e","a","t">>, <<"b","a","d">>}

ScoreUnit == 1000 * 1000 * 10

\* the scores a caller passes: a grid over [-1.0, 1.0], and each threshold
\* with its two neighbours
Scores ==
  {(k * ScoreUnit) \div ScoreGrid : k \in (-ScoreGrid)..ScoreGrid}
    \cup {POSITIVE_ABOVE - 1, POSITIVE_ABOVE, POSITIVE_ABOVE + 1,
          NEUTRAL_ABOVE - 1, NEUTRAL_ABOVE, NEUTRAL_ABOVE + 1}

\* lines 226-227 of main on one text: noise filtering, then case folding
noise_then_lower(text) == str_lower(filter_text_noise(text))

CallInit ==
  /\ csv = [has_text |-> TRUE, cells |-> <<>>]
  /\ nltk_data = NLTK_RESOURCES
  /\ df = <<>>
  /\ cols = <<>>
  /\ pc = "idle"
  /\ corpus = <<>>
  /\ log = <<>>
  /\ call = NoCall
  /\ NoCollect

Returns(fn, arg, score, ret) ==
  /\ call = NoCall
  /\ call' = [fn |-> fn, arg |-> arg, score |-> score, ret |-> ret]
  /\ UNCHANGED <<csv, nltk_data, df, cols, pc, corpus, log, collect_vars>>

CallTranslateEmojis ==
  /\ pc = "idle"
  /\ \E x \in Strings(EmojiAlphabet) :
       Returns("translate_emojis", x, None, translate_emojis(x))

CallHasEmojis ==
  /\ pc = "idle"
  /\ \E x \in Strings(EmojiAlphabet) :
       Returns("has_emojis", x, None, has_emojis(x))

CallTranslateEmoticons ==
  /\ pc = "idle"
  /\ \E x \in Strings(EmoticonAlphabet) :
       Returns("translate_emoticons", x, None, translate_emoticons(x))

CallHasEmoticons ==
  /\ pc = "idle"
  /\ \E x \in Strings(EmoticonAlphabet) :
       Returns("has_emoticons", x, None, has_emoticons(x))

CallFilterTextNoise ==
  /\ pc = "idle"
  /\ \E x \in Strings(NoiseAlphabet) :
       Returns("filter_text_noise", x, None, filter_text_noise(x))

CallLower ==
  /\ pc = "idle"
  /\ \E x \in Strings(NoiseAlphabet) :
       Returns("lower", x, None, str_lower(x))

CallNoiseThenLower ==
  /\ pc = "idle"
  /\ \E x \in Strings(NoiseAlphabet) :
       Returns("noise_then_lower", x, None, noise_then_lower(x))

CallGetSentLabel ==
  /\ pc = "idle"
  /\ \E x \in SentTexts, sc \in {None} \cup {<<v>> : v \in Scores} :
       Returns("get_sent_label", x, sc, get_sent_label(x, sc))

(***************************************************************************)
(* main of scripts/data_collection.py: fetch_batch_data_from_video calls   *)
(* fetch_youtube_comments, whose statements are the actions Execute to     *)
(* Break; an exception of a request leaves it at once.                     *)
(***************************************************************************)
\* the variables of the preparation run and of the direct calls
prep_vars == <<csv, nltk_data, df, cols, corpus, call>>

\* a run of data_collection.py: the service it talks to, and the limit
\* (the service returns at most maxResults items to the first request)
CollectInit ==
  /\ csv = [has_text |-> TRUE, cells |-> <<>>]
  /\ nltk_data = NLTK_RESOURCES
  /\ df = <<>>
  /\ cols = <<>>
  /\ pc = "execute"
  /\ corpus = <<>>
  /\ log = <<>>
  /\ call = NoCall
  /\ limit \in 1..MaxResults
  /\ youtube \in {y \in Services : /\ y.fault.at <= Len(y.sizes)
                                  /\ y.sizes[1] <= limit}
  /\ response = EmptyDict
  /\ comments = <<>>
  /\ requested = <<>>
  /\ ytb_df = <<>>
  /\ output_file = <<>>

\* a request is executed: it raises, or response is what it returns
Request(request, next) ==
  /\ requested' = Append(requested, request)
  /\ IF execute_raises(youtube, request)
       THEN /\ pc' = "raise"
            /\ UNCHANGED response
       ELSE /\ pc' = next
            /\ response' = execute(youtube, request)

\* request = ...list(part, videoId, maxResults=results);
\* response = request.execute(); comments = []
Execute ==
  /\ pc = "execute"
  /\ Request([pageToken |-> 0, maxResults |-> limit], "while")
  /\ comments' = <<>>
  /\ UNCHANGED <<prep_vars, log, youtube, limit, ytb_df, output_file>>

\* while response:
While ==
  /\ pc = "while"
  /\ pc' = IF response.keys # {} THEN "for" ELSE "return"
  /\ UNCHANGED <<prep_vars, log, collect_vars>>

\* the loop over the items leaving out the first item of the page
ForItemsSkip ==
  /\ pc = "for"
  /\ comments' = comments \o
       [j \in 1..(Len(response.items) - 1) |->
          comment_record(response.items[j + 1])]
  /\ pc' = "if_token"
  /\ UNCHANGED <<prep_vars, log, youtube, limit, response, requested,
                 ytb_df, output_file>>

\* for item in response["items"]: comments.append([...])
ForItems ==
  /\ pc = "for"
  /\ comments' = comments \o
       [j \in 1..Len(response.items) |-> comment_record(response.items[j])]
  /\ pc' = "if_token"
  /\ UNCHANGED <<prep_vars, log, youtube, limit, response, requested,
                 ytb_df, output_file>>

\* if "nextPageToken" in response: response = ...list(pageToken=...).execute()
NextPage ==
  /\ pc = "if_token"
  /\ "nextPageToken" \in response.keys
  /\ Request([pageToken |-> response.nextPageToken, maxResults |-> 0], "while")
  /\ UNCHANGED <<prep_vars, log, youtube, limit, comments, ytb_df, output_file>>

\* else: break
Break ==
  /\ pc = "if_token"
  /\ "nextPageToken" \notin response.keys
  /\ pc' = "return"
  /\ UNCHANGED <<prep_vars, log, collect_vars>>

\* return comments; ytb_df = pd.DataFrame(comments, columns=col_names);
\* logging.info
Return ==
  /\ pc = "return"
  /\ ytb_df' = <<DataFrame(comments)>>
  /\ log' = Append(log, "fetched")
  /\ pc' = "to_csv"
  /\ UNCHANGED <<prep_vars, youtube, limit, response, comments, requested,
                 output_file>>

\* a handler that makes the frame of the comments fetched before the error
ExceptHttpErrorPartial ==
  /\ pc = "raise"
  /\ youtube.fault.kind = "HttpError"
  /\ ytb_df' = <<DataFrame(comments)>>
  /\ log' = Append(log, "error")
  /\ pc' = "to_csv"
  /\ UNCHANGED <<prep_vars, youtube, limit, response, comments, requested,
                 output_file>>

\* except googleapiclient.errors.HttpError: logging.error;
\* ytb_df = pd.DataFrame(columns=col_names); the comments fetched so far
\* went with the frame of fetch_youtube_comments
ExceptHttpError ==
  /\ pc = "raise"
  /\ youtube.fault.kind = "HttpError"
  /\ ytb_df' = <<DataFrame(<<>>)>>
  /\ comments' = <<>>
  /\ log' = Append(log, "error")
  /\ pc' = "to_csv"
  /\ UNCHANGED <<prep_vars, youtube, limit, response, requested, output_file>>

\* any other exception passes fetch_batch_data_from_video and reaches
\* main's except Exception: logging.exception
ExceptException ==
  /\ pc = "raise"
  /\ youtube.fault.kind # "HttpError"
  /\ comments' = <<>>
  /\ log' = Append(log, "exception")
  /\ pc' = "collect_failed"
  /\ UNCHANGED <<prep_vars, youtube, limit, response, requested, ytb_df,
                 output_file>>

\* ytb_df.to_csv(output_file); logging.info
ToCsv ==
  /\ pc = "to_csv"
  /\ output_file' = ytb_df
  /\ log' = Append(log, "saved")
  /\ pc' = "collected"
  /\ UNCHANGED <<prep_vars, youtube, limit, response, comments, requested,
                 ytb_df>>

Init == MainInit \/ CallInit \/ CollectInit

Next ==
  \/ ReadData
  \/ RemoveHtmlTags
  \/ TranslateEmojis
  \/ TranslateEmoticons
  \/ FilterTextNoise
  \/ Lower
  \/ FilterStopwords
  \/ LemmatizeText
  \/ HasEmojis
  \/ HasEmoticons
  \/ SentClass
  \/ SentScore
  \/ SaveCorpus
  \/ CallTranslateEmojis
  \/ CallHasEmojis
  \/ CallTranslateEmoticons
  \/ CallHasEmoticons
  \/ CallFilterTextNoise
  \/ CallLower
  \/ CallNoiseThenLower
  \/ CallGetSentLabel
  \/ Execute
  \/ While
  \/ ForItems
  \/ NextPage
  \/ Break
  \/ Return
  \/ ExceptHttpError
  \/ ExceptException
  \/ ToCsv

Spec == Init /\ [][Next]_vars

\* the statements of a run of data_collection.py
CollectNext ==
  \/ Execute
  \/ While
  \/ ForItems
  \/ NextPage
  \/ Break
  \/ Return
  \/ ExceptHttpError
  \/ ExceptException
  \/ ToCsv

\* the statements of data_collection.py are executed one after the other,
\* and none is held back for ever
FairSpec == Spec /\ WF_vars(CollectNext)

(***************************************************************************)
(* Properties.                                                             *)
(***************************************************************************)
DERIVED_COLUMNS ==
  <<"cleaned_text", "filtered_text", "lemmatized_text", "has_emojis",
    "has_emoticons", "sent_class", "sent_score">>

\* the score get_sent_label classifies: the one passed, or the text's own
\* compound score when the one passed is None or 0.0
classified_score == 
  IF falsy(call.score) THEN get_sent_score(call.arg) ELSE call.score[1]

\* the label the thresholds give a score
label_of(s) ==
  IF s > 4000000 THEN "positive"
  ELSE IF s > -1000000 THEN "neutral"
  ELSE "negative"

\* C1: get_sent_label gives every compound score exactly one label:
\* above 0.4 'positive', above -0.1 and up to 0.4 'neutral', up to -0.1
\* 'negative'; 0.4 itself is 'neutral', 0.4000001 'positive' and -0.1
\* 'negative'.
C1_LabelPartition ==
  /\ call.fn = "get_sent_label" =>
       /\ call.ret \in {"positive", "neutral", "negative"}
       /\ classified_score > 4000000 => call.ret = "positive"
       /\ (-1000000 < classified_score /\ classified_score <= 4000000)
            => call.ret = "neutral"
       /\ classified_score <= -1000000 => call.ret = "negative"
       /\ call.score = <<4000001>> => call.ret = "positive"
       /\ call.score = <<-1000000>> => call.ret = "negative"
  /\ (pc \in {"save_corpus", "done"}) =>
       \A i \in 1..Len(df) : df[i].sent_class = label_of(df[i].sent_score)

C1_Witness ==
  /\ call.fn = "get_sent_label"
  /\ call.score = <<4000000>>
  /\ call.ret = "neutral"

\* the text cells of the input file that apply() hands to the stages as str
all_rows_are_str ==
  /\ csv.has_text
  /\ \A i \in 1..Len(csv.cells) : parse_cell(csv.cells, i).kind = "str"

\* C2: a run either annotates every row with every derived column and then
\* saves the corpus, or fails: the error is logged, the run stops, and no
\* corpus file is written.
C2_AllOrNothing ==
  /\ corpus # <<>> =>
       /\ pc = "done"
       /\ \A k \in 1..Len(DERIVED_COLUMNS) :
            DERIVED_COLUMNS[k] \in Range(corpus[1].columns)
       /\ Len(corpus[1].rows) = Len(csv.cells)
       /\ all_rows_are_str
       /\ nltk_data = NLTK_RESOURCES
  /\ pc = "failed" =>
       /\ corpus = <<>>
       /\ log = <<"exception">>
       /\ ~ENABLED Next
  /\ pc = "done" => corpus # <<>> /\ log = <<"saved", "success">>

\* a run that failed in the middle of the chain, with a column already added
C2_Witness ==
  /\ pc = "failed"
  /\ "cleaned_text" \in Range(cols)
  /\ corpus = <<>>

\* cleaned_text as the mandated order of the five stages gives it
cleaned_of(text) ==
  str_lower(filter_text_noise(translate_emoticons(translate_emojis(
    remove_html_tags(text)))))

\* the statements of main that have run, by the statement that is next
PC_ORDER ==
  <<"read_data", "remove_html_tags", "translate_emojis", "translate_emoticons",
    "filter_text_noise", "lower", "filter_stopwords", "lemmatize_text",
    "has_emojis", "has_emoticons", "sent_class", "sent_score", "save_corpus",
    "done">>

pc_index(p) == CHOOSE k \in 1..Len(PC_ORDER) : PC_ORDER[k] = p

\* statement stage (named by its pc) has run
ran(stage) == pc \in Range(PC_ORDER) /\ pc_index(pc) > pc_index(stage)

\* C3: the derived fields are a one-way chain in the mandated order:
\* cleaned_text goes through markup stripping, emoji translation, emoticon
\* translation, noise filtering and case folding of text; filtered_text comes
\* from the final cleaned_text only, lemmatized_text from filtered_text only,
\* sent_class and sent_score from the final cleaned_text only, and the two
\* flags from the original text only.
C3_OneWayChain ==
  \A i \in 1..Len(df) :
    LET t == df[i].text.s
        r == df[i]
    IN  /\ pc = "translate_emojis" => r.cleaned_text = remove_html_tags(t)
        /\ pc = "translate_emoticons" =>
             r.cleaned_text = translate_emojis(remove_html_tags(t))
        /\ pc = "filter_text_noise" =>
             r.cleaned_text =
               translate_emoticons(translate_emojis(remove_html_tags(t)))
        /\ pc = "lower" =>
             r.cleaned_text =
               filter_text_noise(translate_emoticons(translate_emojis(
                 remove_html_tags(t))))
        /\ ran("lower") => r.cleaned_text = cleaned_of(t)
        /\ ran("filter_stopwords") =>
             r.filtered_text = filter_stopwords(cleaned_of(t))
        /\ ran("lemmatize_text") =>
             r.lemmatized_text = lemmatize_text(filter_stopwords(cleaned_of(t)))
        /\ ran("has_emojis") => r.has_emojis = has_emojis(t)
        /\ ran("has_emoticons") => r.has_emoticons = has_emoticons(t)
        /\ ran("sent_class") => r.sent_class = get_sent_label(cleaned_of(t), None)
        /\ ran("sent_score") => r.sent_score = get_sent_score(cleaned_of(t))

\* a saved corpus whose row went through every stage: markup, a plural and
\* capitals, so that the stages do not commute on it
C3_Witness ==
  /\ pc = "done"
  /\ \E i \in 1..Len(df) :
       /\ df[i].text.s = T_HTML
       /\ df[i].cleaned_text = <<"c","a","t","s">>
       /\ df[i].lemmatized_text = <<"c","a","t">>
  /\ \E i \in 1..Len(df) :
       /\ df[i].text.s = T_GREAT
       /\ df[i].sent_class = "positive"
       /\ df[i].has_emoticons = 1

\* the glyphs of the table, and the name a glyph is translated to
is_glyph(token) == \E k \in 1..Len(UNICODE_EMOJI) : UNICODE_EMOJI[k][1] = token

name_of(token) ==
  emoji_name(UNICODE_EMOJI[CHOOSE k \in 1..Len(UNICODE_EMOJI) :
                             UNICODE_EMOJI[k][1] = token][2])

\* C4: translate_emojis replaces every token that equals a glyph by the
\* glyph's name, also when a glyph occurs as several tokens; the other tokens
\* are unchanged, and the tokens are joined by single spaces in their order.
C4_EveryGlyphToken ==
  call.fn = "translate_emojis" =>
    LET tokens == word_tokenize(call.arg)
    IN  call.ret = join([i \in 1..Len(tokens) |->
                           IF is_glyph(tokens[i]) THEN name_of(tokens[i])
                           ELSE tokens[i]])

\* the table with its longer emoticons first
RECURSIVE longest_first(_)
longest_first(table) ==
  IF table = <<>> THEN <<>>
  ELSE LET k == CHOOSE k \in 1..Len(table) :
                  /\ \A j \in 1..Len(table) : Len(table[j][1]) <= Len(table[k][1])
                  /\ \A j \in 1..(k - 1) : Len(table[j][1]) < Len(table[k][1])
       IN  <<table[k]>> \o
             longest_first(SubSeq(table, 1, k - 1) \o SubSeq(table, k + 1, Len(table)))

RECURSIVE replace_in_order(_, _)
replace_in_order(text, table) ==
  IF table = <<>> THEN text
  ELSE replace_in_order(replace(text, table[1][1], table[1][2]), Tail(table))

\* C5: translate_emoticons replaces every occurrence of every emoticon of
\* the table, a longer emoticon before a shorter one that is a substring of
\* it, so that no occurrence of the longer one is rewritten in part.
C5_LongestFirst ==
  call.fn = "translate_emoticons" =>
    call.ret = replace_in_order(call.arg, longest_first(EMOTICONS_EMO))

\* C6: a row whose text is the empty string does not fail the run, and is
\* annotated with empty text fields, flags 0, score 0.0 and class 'neutral'.
C6_EmptyRowAnnotated ==
  ( /\ pc # "idle"
    /\ csv.has_text
    /\ nltk_data = NLTK_RESOURCES
    /\ \A i \in 1..Len(csv.cells) :
         csv.cells[i] = <<>> \/ parse_cell(csv.cells, i).kind = "str" )
  => /\ pc # "failed"
     /\ pc = "done" =>
          \A i \in 1..Len(df) :
            csv.cells[i] = <<>> =>
              /\ df[i].cleaned_text = <<>>
              /\ df[i].filtered_text = <<>>
              /\ df[i].lemmatized_text = <<>>
              /\ df[i].has_emojis = 0
              /\ df[i].has_emoticons = 0
              /\ df[i].sent_score = 0
              /\ df[i].sent_class = "neutral"

\* the flags as the claim defines them
emoji_flag(text) ==
  LET tokens == word_tokenize(text)
  IN  IF \E i \in 1..Len(tokens) : is_glyph(tokens[i]) THEN 1 ELSE 0

emoticon_flag(text) ==
  IF \E k \in 1..Len(EMOTICONS_EMO) : contains(text, EMOTICONS_EMO[k][1])
    THEN 1 ELSE 0

\* C7: the flags are 0 or 1 and come from the original text: has_emoticons
\* is 1 exactly when an emoticon of the table is a substring of the text,
\* has_emojis exactly when a token of the text equals a glyph, whatever the
\* cleaned_text of the row still contains.
C7_FlagsFromOriginalText ==
  /\ call.fn = "has_emojis" => call.ret = emoji_flag(call.arg)
  /\ call.fn = "has_emoticons" => call.ret = emoticon_flag(call.arg)
  /\ \A i \in 1..Len(df) :
       /\ ran("has_emojis") => df[i].has_emojis = emoji_flag(df[i].text.s)
       /\ ran("has_emoticons") =>
            df[i].has_emoticons = emoticon_flag(df[i].text.s)

\* "Great video! :)": the flag is 1 and the cleaned text has no ":)" left
C7_Witness ==
  /\ pc = "done"
  /\ \E i \in 1..Len(df) :
       /\ df[i].text.s = T_GREAT
       /\ df[i].has_emoticons = 1
       /\ ~contains(df[i].cleaned_text, <<":", ")">>)
       /\ emoticon_flag(df[i].cleaned_text) = 0

\* C8: filter_text_noise puts one space in the place of every character that
\* is no letter and leaves every letter where it is: same length, each
\* position the original letter or a space.
C8_NoiseToSpace ==
  /\ call.fn = "filter_text_noise" =>
       /\ Len(call.ret) = Len(call.arg)
       /\ \A i \in 1..Len(call.arg) :
            call.ret[i] = IF isalpha(call.arg[i]) THEN call.arg[i] ELSE " "
  /\ pc = "lower" =>
       \A i \in 1..Len(df) : \A k \in 1..Len(df[i].cleaned_text) :
         isalpha(df[i].cleaned_text[k]) \/ df[i].cleaned_text[k] = " "

C8_Witness ==
  /\ call.fn = "filter_text_noise"
  /\ call.arg = <<"a", "1", "T", DottedI>>
  /\ call.ret = <<"a", " ", "T", DottedI>>

only_letters_and_spaces(s) == \A i \in 1..Len(s) : isalpha(s[i]) \/ s[i] = " "

\* C9 as stated: noise filtering, case folding and their composition each
\* return their own output unchanged, for every string.
C9_Idempotent ==
  /\ call.fn = "filter_text_noise" => filter_text_noise(call.ret) = call.ret
  /\ call.fn = "lower" => str_lower(call.ret) = call.ret
  /\ call.fn = "noise_then_lower" => noise_then_lower(call.ret) = call.ret
  /\ ran("lower") =>
       \A i \in 1..Len(df) :
         noise_then_lower(df[i].cleaned_text) = df[i].cleaned_text

\* C9 as amended: noise filtering and case folding each return their own
\* output unchanged; their composition returns a cleaned_text unchanged when
\* the cleaned_text holds letters and spaces only.
C9_IdempotentOnLetters ==
  /\ call.fn = "filter_text_noise" => filter_text_noise(call.ret) = call.ret
  /\ call.fn = "lower" => str_lower(call.ret) = call.ret
  /\ (call.fn = "noise_then_lower" /\ only_letters_and_spaces(call.ret))
       => noise_then_lower(call.ret) = call.ret
  /\ ran("lower") =>
       \A i \in 1..Len(df) :
         only_letters_and_spaces(df[i].cleaned_text) =>
           noise_then_lower(df[i].cleaned_text) = df[i].cleaned_text

C9_Witness ==
  /\ call.fn = "noise_then_lower"
  /\ call.arg = <<"T", "1", "a">>
  /\ call.ret = <<"t", " ", "a">>
  /\ noise_then_lower(call.ret) = call.ret

\* C10: token counts never increase along the chain, a token being a
\* whitespace-delimited unit (the units stopword removal is to tokenize
\* cleaned_text into): for every row filtered_text has at most as many
\* tokens as cleaned_text, and lemmatized_text at most as many as
\* filtered_text.
C10_WordCounts ==
  \A i \in 1..Len(df) :
    /\ ran("filter_stopwords") =>
         Len(split(df[i].filtered_text)) <= Len(split(df[i].cleaned_text))
    /\ ran("lemmatize_text") =>
         Len(split(df[i].lemmatized_text)) <= Len(split(df[i].filtered_text))

\* C11: get_sent_label treats a passed score of exactly 0.0 as no score:
\* both recompute the score from the text and return its label; for every
\* passed non-zero score the label is the label of that score, whatever
\* the text is.
C11_ZeroScoreRecomputed ==
  call.fn = "get_sent_label" =>
    /\ call.score \in {None, <<0>>} =>
         /\ call.ret = label_of(get_sent_score(call.arg))
         /\ call.ret = get_sent_label(call.arg, None)
         /\ call.ret = get_sent_label(call.arg, <<0>>)
    /\ call.score \notin {None, <<0>>} =>
         /\ call.ret = label_of(call.score[1])
         /\ \A x \in SentTexts : get_sent_label(x, call.score) = call.ret

\* a score of 0.0 passed with a text whose own score is not neutral
C11_Witness ==
  /\ call.fn = "get_sent_label"
  /\ call.score = <<0>>
  /\ call.ret = "positive"
  /\ label_of(0) = "neutral"

\* the derived fields of a row of the frame
derived_fields(row) ==
  [k \in 1..Len(DERIVED_COLUMNS) |-> row[DERIVED_COLUMNS[k]]]

\* one row taken through the whole chain on its own, from its text alone
annotate_row(text) ==
  <<cleaned_of(text),
    filter_stopwords(cleaned_of(text)),
    lemmatize_text(filter_stopwords(cleaned_of(text))),
    has_emojis(text),
    has_emoticons(text),
    get_sent_label(cleaned_of(text), None),
    get_sent_score(cleaned_of(text))>>

\* C12: rows are annotated independently: at every point of a run two rows
\* with the same text have the same derived fields, and in the saved corpus
\* the derived fields of each row are those the row gets when it is taken
\* through the chain on its own, whatever the other rows are and wherever
\* the row stands in the file; so the rows may be processed in any order.
C12_RowsIndependent ==
  /\ \A i, j \in 1..Len(df) :
       df[i].text = df[j].text => derived_fields(df[i]) = derived_fields(df[j])
  /\ corpus # <<>> =>
       \A i \in 1..Len(csv.cells) :
         derived_fields(corpus[1].rows[i]) = annotate_row(csv.cells[i])

\* a saved corpus of two rows whose texts and derived fields differ
C12_Witness ==
  /\ corpus # <<>>
  /\ Len(corpus[1].rows) = 2
  /\ csv.cells[1] = T_GREAT
  /\ csv.cells[2] = T_THE
  /\ derived_fields(corpus[1].rows[1]) # derived_fields(corpus[1].rows[2])

\* the derived columns that are in the frame, in the order of DERIVED_COLUMNS
derived_so_far ==
  LET n == Cardinality({k \in 1..Len(DERIVED_COLUMNS) :
                         DERIVED_COLUMNS[k] \in Range(cols)})
  IN  SubSeq(DERIVED_COLUMNS, 1, n)

\* C13: the output is the input's row sequence, with as many rows in the
\* same order, the raw columns author, published_at, updated_at, likes and
\* text as they were read, and the derived columns appended after them in
\* the order cleaned_text, filtered_text, lemmatized_text, has_emojis,
\* has_emoticons, sent_class, sent_score.
C13_SameRowsColumnsAppended ==
  /\ ran("read_data") =>
       /\ Len(df) = Len(csv.cells)
       /\ \A i \in 1..Len(df) :
            /\ df[i].raw = read_data(csv)[i].raw
            /\ df[i].text = read_data(csv)[i].text
       /\ cols = read_columns(csv) \o derived_so_far
  /\ corpus # <<>> =>
       /\ corpus[1].columns =
            <<"author", "published_at", "updated_at", "likes", "text">>
              \o DERIVED_COLUMNS
       /\ Len(corpus[1].rows) = Len(csv.cells)
       /\ \A i \in 1..Len(csv.cells) :
            /\ corpus[1].rows[i].raw = i
            /\ corpus[1].rows[i].text = [kind |-> "str", s |-> csv.cells[i]]

\* a saved corpus of two rows with different texts and all twelve columns
C13_Witness ==
  /\ corpus # <<>>
  /\ Len(corpus[1].rows) = 2
  /\ csv.cells[1] = T_HTML
  /\ csv.cells[2] = T_GREAT
  /\ Len(corpus[1].columns) = 12
  /\ corpus[1].rows[1].cleaned_text # corpus[1].rows[1].text.s

\* C14: fetch_youtube_comments retrieves at most results comments, whatever
\* pages the service returns, and the frame of fetch_batch_data_from_video
\* never has more than limit rows.
C14_AtMostResults ==
  /\ Len(comments) <= limit
  /\ ytb_df # <<>> => Len(ytb_df[1].rows) <= limit

\* a request of the run raised HttpError
http_error_raised ==
  /\ youtube.fault.kind = "HttpError"
  /\ \E k \in 1..Len(requested) : execute_raises(youtube, requested[k])

\* C15: when a request raises HttpError, fetch_batch_data_from_video raises
\* it to main, which logs the error and stops: no frame is returned and no
\* output file is written.
C15_HttpErrorRaised ==
  http_error_raised =>
    /\ ytb_df = <<>>
    /\ output_file = <<>>
    /\ pc \in {"raise", "collect_failed"}

\* the records of the items of pages 1..k of the video, in order
records_of_pages(k) ==
  [n \in 1..items_before(youtube.sizes, k + 1) |-> comment_record(snippet(n))]

\* the requests made so far that returned a page (a response that is not {})
pages_received ==
  IF pc = "raise" THEN Len(requested) - 1
  ELSE IF Len(requested) > 0 /\ response.keys = {} THEN Len(requested) - 1
  ELSE Len(requested)

C16_OneRecordPerItem ==
  /\ pc \in {"while", "for"} =>
       comments = records_of_pages(Len(requested) - 1)
  /\ pc \in {"if_token", "return"} => comments = records_of_pages(pages_received)
  /\ \A k \in 1..Len(comments) : Len(comments[k]) = 5

C16_NextPageIffToken ==
  /\ \A k \in 1..Len(requested) :
       requested[k].pageToken = (IF k = 1 THEN 0 ELSE k)
  /\ Len(requested) <= Len(youtube.sizes)
  /\ pc = "return" =>
       \/ response.keys = {}
       \/ /\ "nextPageToken" \notin response.keys
          /\ Len(requested) = Len(youtube.sizes)
  /\ (pc = "while" /\ "nextPageToken" \in response.keys) =>
       Len(requested) < Len(youtube.sizes)

\* C16: the pagination loop appends exactly one five-field record (author,
\* published_at, updated_at, likes, text) per item of every page it
\* receives, in page order and in item order, none skipped or duplicated;
\* it requests the next page exactly when the response carries a
\* nextPageToken, passing that token; it returns as soon as a response has
\* no nextPageToken or is empty, so it terminates on every finite chain.
C16_Pagination ==
  /\ [](C16_OneRecordPerItem /\ C16_NextPageIffToken)
  /\ (pc = "execute") ~> (pc \in {"return", "raise"})

\* the loop returned after two pages that held three items or more
C16_Witness ==
  /\ pc = "return"
  /\ youtube.fault = NoFault
  /\ Len(requested) = 2
  /\ Len(comments) >= 3
  /\ comments[3] = <<<<"author", 3>>, <<"published", 3>>, <<"updated", 3>>, 3,
                     <<"text", 3>>>>

\* a request of the run raised
request_raised ==
  \E k \in 1..Len(requested) : execute_raises(youtube, requested[k])

\* C17: ingestion never yields a partial comment list: when a page request
\* raises, on the first page or on a later one, fetch_youtube_comments
\* returns nothing and the records of the earlier pages are dropped, so the
\* frame of fetch_batch_data_from_video has the five raw columns and either
\* the records of every page of the chain or no row at all.
C17_AllPagesOrNothing ==
  /\ ytb_df # <<>> =>
       /\ ytb_df[1].columns =
            <<"author", "published_at", "updated_at", "likes", "text">>
       /\ request_raised => ytb_df[1].rows = <<>>
       /\ youtube.fault = NoFault =>
            ytb_df[1].rows = records_of_pages(Len(youtube.sizes))
       /\ (~request_raised /\ youtube.fault # NoFault) =>
            ytb_df[1].rows = records_of_pages(pages_received)
  /\ (request_raised /\ pc # "raise") => comments = <<>>
  /\ (request_raised /\ youtube.fault.kind # "HttpError") =>
       ytb_df = <<>> /\ output_file = <<>>
  /\ output_file # <<>> => output_file = ytb_df

\* the request for the second page raised HttpError after the first page's
\* items were appended, and the frame has no row
C17_Witness ==
  /\ pc = "to_csv"
  /\ youtube.fault = [at |-> 2, kind |-> "HttpError"]
  /\ youtube.sizes[1] >= 1
  /\ Len(requested) = 2
  /\ ytb_df # <<>>
  /\ ytb_df[1].rows = <<>>
====
